---- MODULE Spec2Model ----
(***************************************************************************)
(* Resilient generation client of go-ai-client (package gemini):           *)
(* client construction, the error classifier, the response extractor, the  *)
(* retry executor, the File API offload of oversized inline parts and the  *)
(* two generation calls GenerateContent and GenerateWithParts.             *)
(***************************************************************************)
EXTENDS Integers, Sequences, FiniteSets, TLC

(* ------------------------------ bounds --------------------------------- *)

\* largest Config.MaxRetries a caller passes (0 selects the default)
MaxCfgRetries == 1

\* longest parts sequence handed to GenerateWithParts
MaxParts == 2

(* ------------------------- program constants --------------------------- *)

\* DefaultTemperature float32 = 0.7, in tenths
DefaultTemperature == 7

DefaultMaxRetries == 3

\* DefaultInitialDelay = 30 * time.Second, in seconds
DefaultInitialDelay == 30

\* DefaultMaxDelay = 120 * time.Second, in seconds
DefaultMaxDelay == 120

fileAPITransferThreshold == 512 * 1024

\* filePollingInterval = 2 * time.Second, in seconds
filePollingInterval == 2

\* filePollingTimeout = 60 * time.Second, in seconds
filePollingTimeout == 60

(* ------------------------------ errors --------------------------------- *)

\* An error value is described by what errors.As / errors.Is / status.FromError
\* can observe of it: whether it is (or wraps) an *APIResponseError, whether it
\* is (or wraps) context.Canceled / context.DeadlineExceeded, the gRPC status
\* code it carries ("none": status.FromError reports !ok), the message of the
\* outermost wrapper (msg) and the message of the innermost error (root).
NoError == [msg |-> "nil", root |-> "nil", api |-> FALSE, ctx |-> "none", code |-> "none", attempts |-> 0]

\* gRPC status codes the classifier names, and one it does not name
RetryableCodes == {"DeadlineExceeded", "Unavailable", "ResourceExhausted", "Internal"}

PermanentCodes == {"Unauthenticated", "InvalidArgument", "NotFound", "PermissionDenied"}

Codes == RetryableCodes \cup PermanentCodes \cup {"Unknown"}

CtxErrs == {"canceled", "deadline"}

\* &APIResponseError{msg: m}
APIResponseError(m) == [msg |-> m, root |-> m, api |-> TRUE, ctx |-> "none", code |-> "none", attempts |-> 0]

\* status.Error(c, ...)
StatusError(c) == [msg |-> "status", root |-> "status", api |-> FALSE, ctx |-> "none", code |-> c, attempts |-> 0]

\* context.Canceled / context.DeadlineExceeded, as returned by ctx.Err()
CtxError(k) == [msg |-> "context", root |-> "context", api |-> FALSE, ctx |-> k, code |-> "none", attempts |-> 0]

\* errors.New(...): neither a status, nor a context error, nor an APIResponseError
PlainError(m) == [msg |-> m, root |-> m, api |-> FALSE, ctx |-> "none", code |-> "none", attempts |-> 0]

\* fmt.Errorf("<m>: %w", e): errors.Is / errors.As still see e through the wrapper
Wrap(m, e) == [e EXCEPT !.msg = m]

\* errors Models.GenerateContent can
\* surface: a status with any code, a context error (possibly also carrying a
\* status through wrapping), or an error of no recognised shape
TransportErrors ==
    {StatusError(c) : c \in Codes}
      \cup {CtxError(k) : k \in CtxErrs}
      \cup {[CtxError(k) EXCEPT !.code = c] : k \in CtxErrs, c \in {"Unavailable", "InvalidArgument"}}
      \cup {PlainError("transport")}

\* errors Files.Upload and Files.Get can surface under context c; the offload
\* never classifies them, so one error of each observable shape is kept
FileAPIErrors(c) ==
    {PlainError("file api"), StatusError("Unavailable")}
      \cup (IF c = "live" THEN {} ELSE {CtxError(c)})

(* ------------------------- error classifier ---------------------------- *)

\* a classifier that retries whatever carries no status
shouldRetry_RetryUnknown(err) ==
    IF err.api THEN FALSE
    ELSE IF err.ctx \in CtxErrs THEN FALSE
    ELSE IF err.code = "none" THEN TRUE
    ELSE err.code \in RetryableCodes

\* a classifier whose switch retries the codes it does not name
shouldRetry_DefaultRetry(err) ==
    IF err.api THEN FALSE
    ELSE IF err.ctx \in CtxErrs THEN FALSE
    ELSE IF err.code = "none" THEN FALSE
    ELSE err.code \notin PermanentCodes

\* a classifier with the APIResponseError test inverted
shouldRetry_ApiRetried(err) ==
    IF err.api THEN TRUE
    ELSE IF err.ctx \in CtxErrs THEN FALSE
    ELSE IF err.code = "none" THEN FALSE
    ELSE err.code \in RetryableCodes

\* a classifier that checks the status code before the context error
shouldRetry_CodeFirst(err) ==
    IF err.api THEN FALSE
    ELSE IF err.code \in RetryableCodes THEN TRUE
    ELSE FALSE

\* a classifier that no longer treats Internal as transient
shouldRetry_NoInternal(err) ==
    IF err.api THEN FALSE
    ELSE IF err.ctx \in CtxErrs THEN FALSE
    ELSE IF err.code = "none" THEN FALSE
    ELSE err.code \in (RetryableCodes \ {"Internal"})

shouldRetry(err) ==
    IF err.api THEN FALSE
    ELSE IF err.ctx \in CtxErrs THEN FALSE
    ELSE IF err.code = "none" THEN FALSE
    ELSE err.code \in RetryableCodes

(* ------------------------- response extractor -------------------------- *)

\* *genai.GenerateContentResponse: nil, or its candidates; of a candidate the
\* finish reason and the content (nil, or the Text of each part, "" for a part
\* without text)
FinishReasonUnspecified == "FINISH_REASON_UNSPECIFIED"

FinishReasonStop == "STOP"

FinishReasons == {FinishReasonUnspecified, FinishReasonStop, "SAFETY", "MAX_TOKENS"}

NilContent == [isNil |-> TRUE, Parts |-> <<>>]

Content(ps) == [isNil |-> FALSE, Parts |-> ps]

Contents == {NilContent, Content(<<>>), Content(<<"">>), Content(<<"t1">>), Content(<<"", "t2">>)}

NilResponse == [isNil |-> TRUE, Candidates |-> <<>>]

Response(cs) == [isNil |-> FALSE, Candidates |-> cs]

Responses ==
    {NilResponse, Response(<<>>)}
      \cup {Response(<<[FinishReason |-> f, Content |-> c]>>) : f \in FinishReasons, c \in Contents}

RECURSIVE firstText(_)
firstText(ps) ==
    IF ps = <<>> THEN ""
    ELSE IF Head(ps) # "" THEN Head(ps)
    ELSE firstText(Tail(ps))

\* an extractor that looks for text before it looks at the finish reason
extractTextFromResponse_TextFirst(resp) ==
    IF resp.isNil \/ Len(resp.Candidates) = 0
    THEN [text |-> "", err |-> APIResponseError("empty response")]
    ELSE LET candidate == resp.Candidates[1] IN
         IF ~candidate.Content.isNil /\ firstText(candidate.Content.Parts) # ""
         THEN [text |-> firstText(candidate.Content.Parts), err |-> NoError]
         ELSE IF /\ candidate.FinishReason # FinishReasonUnspecified
                 /\ candidate.FinishReason # FinishReasonStop
         THEN [text |-> "", err |-> APIResponseError("blocked")]
         ELSE [text |-> "", err |-> NoError]

\* an extractor that accepts a response without candidates
extractTextFromResponse_EmptyAccepted(resp) ==
    IF resp.isNil \/ Len(resp.Candidates) = 0
    THEN [text |-> "", err |-> NoError]
    ELSE LET candidate == resp.Candidates[1] IN
         IF /\ candidate.FinishReason # FinishReasonUnspecified
            /\ candidate.FinishReason # FinishReasonStop
         THEN [text |-> "", err |-> APIResponseError("blocked")]
         ELSE IF candidate.Content.isNil \/ Len(candidate.Content.Parts) = 0
         THEN [text |-> "", err |-> NoError]
         ELSE [text |-> firstText(candidate.Content.Parts), err |-> NoError]

extractTextFromResponse(resp) ==
    IF resp.isNil \/ Len(resp.Candidates) = 0
    THEN [text |-> "", err |-> APIResponseError("empty response")]
    ELSE LET candidate == resp.Candidates[1] IN
         IF /\ candidate.FinishReason # FinishReasonUnspecified
            /\ candidate.FinishReason # FinishReasonStop
         THEN [text |-> "", err |-> APIResponseError("blocked")]
         ELSE IF candidate.Content.isNil \/ Len(candidate.Content.Parts) = 0
         THEN [text |-> "", err |-> NoError]
         ELSE [text |-> firstText(candidate.Content.Parts), err |-> NoError]

(* ------------------------- client construction ------------------------- *)

\* Config.Temperature is a *float32: nil or a value, in tenths
NoTemperature == [isNil |-> TRUE, v |-> 0]

Temperature(t) == [isNil |-> FALSE, v |-> t]

\* (nil, err): no client is returned
NoClient(m) == [ok |-> FALSE, err |-> PlainError(m), apiKey |-> "", temperature |-> 0,
                retryConfig |-> [MaxRetries |-> 0, InitialInterval |-> 0, MaxInterval |-> 0]]

\* a NewClient without the range check of the temperature
NewClient_NoRangeCheck(cfg) ==
    IF cfg.APIKey = "" THEN NoClient("api key required")
    ELSE [ok |-> TRUE, err |-> NoError, apiKey |-> cfg.APIKey,
          temperature |-> IF cfg.Temperature.isNil THEN DefaultTemperature ELSE cfg.Temperature.v,
          retryConfig |->
            [MaxRetries |-> IF cfg.MaxRetries > 0 THEN cfg.MaxRetries ELSE DefaultMaxRetries,
             InitialInterval |-> IF cfg.InitialDelay > 0 THEN cfg.InitialDelay ELSE DefaultInitialDelay,
             MaxInterval |-> IF cfg.MaxDelay > 0 THEN cfg.MaxDelay ELSE DefaultMaxDelay]]

\* a NewClient with the defaults of the two delays exchanged
NewClient_SwappedDefaults(cfg) ==
    IF cfg.APIKey = "" THEN NoClient("api key required")
    ELSE IF ~cfg.Temperature.isNil /\ (cfg.Temperature.v < 0 \/ cfg.Temperature.v > 10)
    THEN NoClient("temperature out of range")
    ELSE [ok |-> TRUE, err |-> NoError, apiKey |-> cfg.APIKey,
          temperature |-> IF cfg.Temperature.isNil THEN DefaultTemperature ELSE cfg.Temperature.v,
          retryConfig |->
            [MaxRetries |-> IF cfg.MaxRetries > 0 THEN cfg.MaxRetries ELSE DefaultMaxRetries,
             InitialInterval |-> IF cfg.InitialDelay > 0 THEN cfg.InitialDelay ELSE DefaultMaxDelay,
             MaxInterval |-> IF cfg.MaxDelay > 0 THEN cfg.MaxDelay ELSE DefaultInitialDelay]]

NewClient(cfg) ==
    IF cfg.APIKey = "" THEN NoClient("api key required")
    ELSE IF ~cfg.Temperature.isNil /\ (cfg.Temperature.v < 0 \/ cfg.Temperature.v > 10)
    THEN NoClient("temperature out of range")
    ELSE [ok |-> TRUE, err |-> NoError, apiKey |-> cfg.APIKey,
          temperature |-> IF cfg.Temperature.isNil THEN DefaultTemperature ELSE cfg.Temperature.v,
          retryConfig |->
            [MaxRetries |-> IF cfg.MaxRetries > 0 THEN cfg.MaxRetries ELSE DefaultMaxRetries,
             InitialInterval |-> IF cfg.InitialDelay > 0 THEN cfg.InitialDelay ELSE DefaultInitialDelay,
             MaxInterval |-> IF cfg.MaxDelay > 0 THEN cfg.MaxDelay ELSE DefaultMaxDelay]]

\* the environment: what os.Getenv returns for the two variables, "" when the
\* variable is unset or empty
Env(gemini, google) == [GEMINI_API_KEY |-> gemini, GOOGLE_API_KEY |-> google]

NoEnv == Env("", "")

\* Config{APIKey: apiKey}: every other field has its zero value
KeyOnlyConfig(apiKey) ==
    [APIKey |-> apiKey, Temperature |-> NoTemperature, MaxRetries |-> 0,
     InitialDelay |-> 0, MaxDelay |-> 0]

\* a NewClientFromEnv that reads GOOGLE_API_KEY first
NewClientFromEnv_GoogleFirst(e) ==
    LET apiKey == IF e.GOOGLE_API_KEY = "" THEN e.GEMINI_API_KEY ELSE e.GOOGLE_API_KEY
    IN  IF apiKey = "" THEN NoClient("GEMINI_API_KEY or GOOGLE_API_KEY not set")
        ELSE NewClient(KeyOnlyConfig(apiKey))

NewClientFromEnv(e) ==
    LET apiKey == IF e.GEMINI_API_KEY = "" THEN e.GOOGLE_API_KEY ELSE e.GEMINI_API_KEY
    IN  IF apiKey = "" THEN NoClient("GEMINI_API_KEY or GOOGLE_API_KEY not set")
        ELSE NewClient(KeyOnlyConfig(apiKey))

\* the configurations the generation calls are exercised with
Configs ==
    {[APIKey |-> "key", Temperature |-> NoTemperature, MaxRetries |-> n,
      InitialDelay |-> 0, MaxDelay |-> 0] : n \in 0..MaxCfgRetries}


(* ------------------------------- parts --------------------------------- *)

\* *genai.Part: Text, InlineData (InlineLen = -1: nil, else len(InlineData.Data))
\* and FileData (FileURI = 0: nil, else the URI of the blob)
TextPart == [Text |-> "t", InlineLen |-> -1, FileURI |-> 0]

InlinePart(n) == [Text |-> "", InlineLen |-> n, FileURI |-> 0]

\* &genai.Part{FileData: &genai.FileData{FileURI: uri}}
FilePart(uri) == [Text |-> "", InlineLen |-> -1, FileURI |-> uri]

PartChoices == {TextPart, InlinePart(fileAPITransferThreshold), InlinePart(fileAPITransferThreshold + 1)}

PartLists == UNION {[1..n -> PartChoices] : n \in 0..MaxParts}

\* an offload condition that also takes the parts of exactly the threshold
oversized_AtThreshold(p) == p.InlineLen # -1 /\ p.InlineLen >= fileAPITransferThreshold

\* the condition under which GenerateWithParts offloads a part
oversized(p) == p.InlineLen # -1 /\ p.InlineLen > fileAPITransferThreshold

\* the blob the File API creates for the part at index i: its name and its URI
BlobName(i) == i

BlobURI(i) == 100 + i

(* ------------------------------- state --------------------------------- *)

VARIABLES
    env,            \* the environment variables NewClientFromEnv reads
    cfg,            \* the Config handed to NewClient
    client,         \* the Client NewClient returned
    pc,             \* position of the generation call
    mode,           \* "text": GenerateContent, "parts": GenerateWithParts
    prompt,         \* finalPrompt
    parts,          \* the caller's parts slice
    processedParts, \* GenerateWithParts' copy of it
    ctx,            \* the caller's context: "live", "canceled", "deadline"
    gCtx,           \* the errgroup's derived context
    task,           \* per part index, the upload goroutine
    egErr,          \* the first error an errgroup goroutine returned
    uploaded,       \* names of the blobs whose upload completed
    cleaned,        \* how many of them the cleanup has handled
    deletes,        \* per blob, the Files.Delete calls issued for it
    asyncDel,       \* per blob, the detached delete goroutine
    deleteErr,      \* what the last Files.Delete call returned
    attempts,       \* invocations of op by the retry executor
    genRequests,    \* requests sent to Models.GenerateContent
    sentParts,      \* the parts of each request sent
    genLog,         \* what Models.GenerateContent returned to each request
    lastErr,        \* the error of the last failed attempt
    finalResp,      \* the Response op stored
    ret             \* what the call returned to its caller

vars == <<env, deleteErr, cfg, client, pc, mode, prompt, parts, processedParts, ctx, gCtx, task,
          egErr, uploaded, cleaned, deletes, asyncDel, attempts, genRequests,
          sentParts, genLog, lastErr, finalResp, ret>>

callVars == <<mode, prompt, parts>>

offloadVars == <<processedParts, gCtx, task, egErr, uploaded, deletes, asyncDel>>

retryVars == <<attempts, genRequests, sentParts, genLog, lastErr, finalResp>>

Idx == 1..MaxParts

NilResp == [isNil |-> TRUE, Text |-> "", RawResponse |-> NilResponse]

\* an upload goroutine: its position, the time since its ticker and timeout
\* were created, the error it returned, and the currentFile.State with which
\* it returned its URI ("" when it did not)
NoTask == [pc |-> "none", clock |-> 0, err |-> NoError, State |-> ""]

NoRet == [resp |-> NilResp, err |-> NoError]

\* a delete goroutine: not started, started or finished, and the context it
\* hands to Files.Delete
NoDelete == [state |-> "none", ctx |-> "none"]

Init ==
    /\ env = NoEnv
    /\ deleteErr = NoError
    /\ cfg \in Configs
    /\ client = NewClient(cfg)
    /\ pc = "idle"
    /\ mode = "none"
    /\ prompt = ""
    /\ parts = <<>>
    /\ processedParts = <<>>
    /\ ctx = "live"
    /\ gCtx = "live"
    /\ task = [i \in Idx |-> NoTask]
    /\ egErr = NoError
    /\ uploaded = <<>>
    /\ cleaned = 0
    /\ deletes = [i \in Idx |-> 0]
    /\ asyncDel = [i \in Idx |-> NoDelete]
    /\ attempts = 0
    /\ genRequests = 0
    /\ sentParts = {}
    /\ genLog = <<>>
    /\ lastErr = NoError
    /\ finalResp = NilResp
    /\ ret = NoRet


(* --------------------------- the caller -------------------------------- *)

\* the caller cancels its context, or the context's deadline passes; the
\* errgroup's context is derived from it
CancelCtx ==
    /\ pc \notin {"idle", "returned"}
    /\ ctx = "live"
    /\ \E k \in CtxErrs :
         /\ ctx' = k
         /\ gCtx' = IF gCtx = "live" THEN k ELSE gCtx
    /\ UNCHANGED <<env, deleteErr, cfg, client, pc, callVars, processedParts, task, egErr, uploaded,
                   cleaned, deletes, asyncDel, retryVars, ret>>

(* --------------------------- retry executor ---------------------------- *)

\* retry.Do's "retries exhausted" error: it carries the last error of op
\* (errors.Is / errors.As see it), the attempt count and the label
ExhaustedError(e, n) == [e EXCEPT !.msg = "retries exhausted", !.attempts = n]

\* what retry.Do does after an attempt of op returned err, the n-th attempt:
\* "done" (op succeeded), "stop" (return err as it is), "wait" (back off, then
\* run op again) or "exhausted"
DoAfterAttempt(policy, n, err, retryable) ==
    IF err = NoError THEN "done"
    ELSE IF ~retryable THEN "stop"
    ELSE IF n < policy.MaxRetries + 1 THEN "wait"
    ELSE "exhausted"

(* --------------------------- GenerateContent --------------------------- *)

\* a GenerateContent without the check of the prompt
GenerateContent_NoValidation ==
    /\ pc = "idle"
    /\ client.ok
    /\ \E p \in {"", "prompt"} :
         /\ prompt' = p
         /\ mode' = "text"
         /\ ret' = ret
         /\ pc' = "execute"
    /\ UNCHANGED <<env, deleteErr, cfg, client, parts, ctx, offloadVars, cleaned, retryVars>>

GenerateContent ==
    /\ pc = "idle"
    /\ client.ok
    /\ \E p \in {"", "prompt"} :
         /\ prompt' = p
         /\ mode' = "text"
         /\ IF p = ""
            THEN /\ ret' = [resp |-> NilResp, err |-> PlainError("empty prompt")]
                 /\ pc' = "returned"
            ELSE /\ ret' = ret
                 /\ pc' = "execute"
    /\ UNCHANGED <<env, deleteErr, cfg, client, parts, ctx, offloadVars, cleaned, retryVars>>

\* promptToContents(finalPrompt) and the contents of GenerateWithParts
requestParts ==
    IF mode = "text" THEN <<[Text |-> prompt, InlineLen |-> -1, FileURI |-> 0]>>
    ELSE processedParts

\* retry.Do runs op; op sends the request to Models.GenerateContent
InvokeOp ==
    /\ pc = "execute"
    /\ attempts' = attempts + 1
    /\ genRequests' = genRequests + 1
    /\ sentParts' = sentParts \cup {requestParts}
    /\ pc' = "inflight"
    /\ UNCHANGED <<env, deleteErr, cfg, client, callVars, ctx, offloadVars, cleaned, genLog, lastErr,
                   finalResp, ret>>

\* the outcomes of Models.GenerateContent: an error, or a response
Outcome(e, r) == [err |-> e, resp |-> r]

Outcomes ==
    {Outcome(e, NilResponse) : e \in TransportErrors}
      \cup {Outcome(NoError, r) : r \in Responses}

\* an op that does not store the Response it built
opReturn_NoStore(o) ==
    IF o.err # NoError THEN [err |-> o.err, resp |-> NilResp]
    ELSE LET x == extractTextFromResponse(o.resp) IN
         [err |-> x.err, resp |-> NilResp]

\* an op that discards the error of the extraction
opReturn_IgnoreExtractError(o) ==
    IF o.err # NoError THEN [err |-> o.err, resp |-> NilResp]
    ELSE LET x == extractTextFromResponse(o.resp) IN
         [err |-> NoError,
          resp |-> [isNil |-> FALSE, Text |-> x.text, RawResponse |-> o.resp]]

\* the body of op after the request returned (err, resp): the error op returns
\* and the Response it stores
opReturn(o) ==
    IF o.err # NoError THEN [err |-> o.err, resp |-> NilResp]
    ELSE LET x == extractTextFromResponse(o.resp) IN
         IF x.err # NoError THEN [err |-> x.err, resp |-> NilResp]
         ELSE [err |-> NoError,
               resp |-> [isNil |-> FALSE, Text |-> x.text, RawResponse |-> o.resp]]

\* op returns; retry.Do returns, or waits for the next attempt; when retry.Do
\* returns, GenerateContent / GenerateWithParts return to the caller
OpReturns ==
    /\ pc = "inflight"
    /\ \E o \in Outcomes :
         LET r == opReturn(o)
             d == DoAfterAttempt(client.retryConfig, attempts, r.err, shouldRetry(r.err))
         IN  /\ genLog' = Append(genLog, o)
             /\ lastErr' = IF r.err = NoError THEN lastErr ELSE r.err
             /\ finalResp' = IF r.err = NoError THEN r.resp ELSE finalResp
             /\ CASE d = "done" ->
                       /\ ret' = [resp |-> finalResp', err |-> NoError]
                       /\ pc' = "returning"
                  [] d = "stop" ->
                       /\ ret' = [resp |-> NilResp, err |-> r.err]
                       /\ pc' = "returning"
                  [] d = "wait" ->
                       /\ ret' = ret
                       /\ pc' = "backoff"
                  [] d = "exhausted" ->
                       /\ ret' = [resp |-> NilResp, err |-> ExhaustedError(r.err, attempts)]
                       /\ pc' = "returning"
    /\ UNCHANGED <<env, deleteErr, cfg, client, callVars, ctx, offloadVars, cleaned, attempts,
                   genRequests, sentParts>>

\* an executeWithRetry that hands retry.Do a context of its own
retryCtx_Detached == "live"

\* the context executeWithRetry hands to retry.Do: the caller's
retryCtx == ctx

\* the backoff delay elapses: retry.Do runs op again
BackoffElapsed ==
    /\ pc = "backoff"
    /\ retryCtx = "live"
    /\ pc' = "execute"
    /\ UNCHANGED <<env, deleteErr, cfg, client, callVars, ctx, offloadVars, cleaned, retryVars, ret>>

\* the context is done during the backoff delay: retry.Do returns ctx.Err()
BackoffCancelled ==
    /\ pc = "backoff"
    /\ retryCtx # "live"
    /\ ret' = [resp |-> NilResp, err |-> CtxError(retryCtx)]
    /\ pc' = "returning"
    /\ UNCHANGED <<env, deleteErr, cfg, client, callVars, ctx, offloadVars, cleaned, retryVars>>


(* ------------------------- GenerateWithParts --------------------------- *)

\* processedParts is a copy of parts; one errgroup goroutine is started per
\* part carrying inline data above the threshold
GenerateWithParts ==
    /\ pc = "idle"
    /\ client.ok
    /\ \E ps \in PartLists :
         /\ parts' = ps
         /\ processedParts' = ps
         /\ task' = [i \in Idx |->
                       IF i \in DOMAIN ps /\ oversized(ps[i])
                       THEN [pc |-> "upload", clock |-> 0, err |-> NoError, State |-> ""]
                       ELSE NoTask]
    /\ mode' = "parts"
    /\ pc' = "offload"
    /\ UNCHANGED <<env, deleteErr, cfg, client, prompt, ctx, gCtx, egErr, uploaded, cleaned, deletes,
                   asyncDel, retryVars, ret>>

\* a group whose goroutines run with a context the group does not cancel
taskFails_NoCancel(i, e) ==
    /\ task' = [task EXCEPT ![i] = [pc |-> "failed", clock |-> 0, err |-> e, State |-> ""]]
    /\ egErr' = IF egErr = NoError THEN e ELSE egErr
    /\ gCtx' = gCtx

\* an errgroup goroutine returns err: the first error is kept and cancels gCtx
taskFails(i, e) ==
    /\ task' = [task EXCEPT ![i] = [pc |-> "failed", clock |-> 0, err |-> e, State |-> ""]]
    /\ egErr' = IF egErr = NoError THEN e ELSE egErr
    /\ gCtx' = IF gCtx = "live" THEN "canceled" ELSE gCtx

\* go func(fileName) { Files.Delete(context.Background(), fileName, ...) }
spawnDelete(i, c) == asyncDel' = [asyncDel EXCEPT ![i] = [state |-> "spawned", ctx |-> c]]

\* the names of the completed uploads, kept for the cleanup
recordUpload(list, name) == Append(list, name)

\* Files.Upload returns: an error, or the blob it created; a cancellation
\* that reaches the request before it completed makes it fail, one that comes
\* later finds the goroutine in its poll loop
UploadReturns(i) ==
    /\ task[i].pc = "upload"
    /\ \/ \E e \in FileAPIErrors(gCtx) :
            /\ taskFails(i, Wrap("failed to upload large inline data to File API", e))
            /\ UNCHANGED <<processedParts, uploaded, asyncDel>>
       \/ /\ gCtx = "live"
          /\ task' = [task EXCEPT ![i] = [pc |-> "select", clock |-> 0, err |-> NoError, State |-> ""]]
          /\ UNCHANGED <<processedParts, gCtx, egErr, uploaded, asyncDel>>
    /\ UNCHANGED <<env, deleteErr, cfg, client, pc, callVars, ctx, cleaned, deletes, retryVars, ret>>

\* time passes for the ticker and the timeout of goroutine i; the clock keeps
\* the instants that matter: the first tick and the polling timeout
TimePasses(i) ==
    /\ task[i].pc \in {"select", "get"}
    /\ task[i].clock < filePollingTimeout
    /\ task' = [task EXCEPT ![i].clock =
                  IF @ < filePollingInterval THEN filePollingInterval ELSE filePollingTimeout]
    /\ UNCHANGED <<env, deleteErr, cfg, client, pc, callVars, processedParts, ctx, gCtx, egErr, uploaded,
                   cleaned, deletes, asyncDel, retryVars, ret>>

\* case <-ctx.Done()
PollCtxDone(i) ==
    /\ task[i].pc = "select"
    /\ gCtx # "live"
    /\ spawnDelete(i, "Background")
    /\ taskFails(i, Wrap("failed to upload large inline data to File API", CtxError(gCtx)))
    /\ UNCHANGED <<env, deleteErr, cfg, client, pc, callVars, processedParts, ctx, uploaded, cleaned,
                   deletes, retryVars, ret>>

\* a timeout case that hands the caller's context to the delete
PollTimeout_CallerCtx(i) ==
    /\ task[i].pc = "select"
    /\ task[i].clock >= filePollingTimeout
    /\ spawnDelete(i, "gCtx")
    /\ taskFails(i, Wrap("failed to upload large inline data to File API",
                         PlainError("file processing timed out")))
    /\ UNCHANGED <<env, deleteErr, cfg, client, pc, callVars, processedParts, ctx, uploaded, cleaned,
                   deletes, retryVars, ret>>

\* a timeout created anew at every iteration of the loop: it is never ready
\* as long as the ticker keeps firing
PollTimeout_TimerPerIteration(i) ==
    /\ task[i].pc = "select"
    /\ task[i].clock >= filePollingTimeout + filePollingInterval
    /\ spawnDelete(i, "Background")
    /\ taskFails(i, Wrap("failed to upload large inline data to File API",
                         PlainError("file processing timed out")))
    /\ UNCHANGED <<env, deleteErr, cfg, client, pc, callVars, processedParts, ctx, uploaded,
                   cleaned, deletes, retryVars, ret>>

\* case <-timeout
PollTimeout(i) ==
    /\ task[i].pc = "select"
    /\ task[i].clock >= filePollingTimeout
    /\ spawnDelete(i, "Background")
    /\ taskFails(i, Wrap("failed to upload large inline data to File API",
                         PlainError("file processing timed out")))
    /\ UNCHANGED <<env, deleteErr, cfg, client, pc, callVars, processedParts, ctx, uploaded, cleaned,
                   deletes, retryVars, ret>>

\* case <-ticker.C: Files.Get is called
PollTick(i) ==
    /\ task[i].pc = "select"
    /\ task[i].clock >= filePollingInterval
    /\ task' = [task EXCEPT ![i].pc = "get"]
    /\ UNCHANGED <<env, deleteErr, cfg, client, pc, callVars, processedParts, ctx, gCtx, egErr, uploaded,
                   cleaned, deletes, asyncDel, retryVars, ret>>

FileStates == {"ACTIVE", "FAILED", "PROCESSING", "STATE_UNSPECIFIED"}

\* a status query that also starts a delete goroutine when the blob is active
GetReturns_DeleteOnActive(i) ==
    /\ task[i].pc = "get"
    /\ \/ \E e \in FileAPIErrors(gCtx) :
            /\ taskFails(i, Wrap("failed to upload large inline data to File API", e))
            /\ UNCHANGED <<processedParts, uploaded, asyncDel>>
       \/ \E st \in FileStates :
            CASE st = "ACTIVE" ->
                   /\ task' = [task EXCEPT ![i] = [pc |-> "ok", clock |-> 0, err |-> NoError,
                                                   State |-> st]]
                   /\ processedParts' = [processedParts EXCEPT ![i] = FilePart(BlobURI(i))]
                   /\ uploaded' = recordUpload(uploaded, BlobName(i))
                   /\ spawnDelete(i, "Background")
                   /\ UNCHANGED <<gCtx, egErr>>
              [] st = "FAILED" ->
                   /\ taskFails(i, Wrap("failed to upload large inline data to File API",
                                        PlainError("File API processing failed")))
                   /\ UNCHANGED <<processedParts, uploaded, asyncDel>>
              [] OTHER ->
                   /\ task' = [task EXCEPT ![i].pc = "select"]
                   /\ UNCHANGED <<processedParts, gCtx, egErr, uploaded, asyncDel>>
    /\ UNCHANGED <<env, deleteErr, cfg, client, pc, callVars, ctx, cleaned, deletes, retryVars, ret>>

\* a status query whose substitution writes through to the caller's slice
GetReturns_InPlace(i) ==
    /\ task[i].pc = "get"
    /\ \/ \E e \in FileAPIErrors(gCtx) :
            /\ taskFails(i, Wrap("failed to upload large inline data to File API", e))
            /\ UNCHANGED <<parts, processedParts, uploaded>>
       \/ \E st \in FileStates :
            CASE st = "ACTIVE" ->
                   /\ task' = [task EXCEPT ![i] = [pc |-> "ok", clock |-> 0, err |-> NoError,
                                                   State |-> st]]
                   /\ processedParts' = [processedParts EXCEPT ![i] = FilePart(BlobURI(i))]
                   /\ parts' = processedParts'
                   /\ uploaded' = recordUpload(uploaded, BlobName(i))
                   /\ UNCHANGED <<gCtx, egErr>>
              [] st = "FAILED" ->
                   /\ taskFails(i, Wrap("failed to upload large inline data to File API",
                                        PlainError("File API processing failed")))
                   /\ UNCHANGED <<parts, processedParts, uploaded>>
              [] OTHER ->
                   /\ task' = [task EXCEPT ![i].pc = "select"]
                   /\ UNCHANGED <<parts, processedParts, gCtx, egErr, uploaded>>
    /\ UNCHANGED <<env, deleteErr, cfg, client, pc, mode, prompt, ctx, cleaned, deletes,
                   asyncDel, retryVars, ret>>

\* a status query that takes every state but FAILED and PROCESSING for success
GetReturns_SuccessByDefault(i) ==
    /\ task[i].pc = "get"
    /\ \/ \E e \in FileAPIErrors(gCtx) :
            /\ taskFails(i, Wrap("failed to upload large inline data to File API", e))
            /\ UNCHANGED <<processedParts, uploaded>>
       \/ \E st \in FileStates :
            CASE st \in {"ACTIVE", "STATE_UNSPECIFIED"} ->
                   /\ task' = [task EXCEPT ![i] = [pc |-> "ok", clock |-> 0, err |-> NoError,
                                                   State |-> st]]
                   /\ processedParts' = [processedParts EXCEPT ![i] = FilePart(BlobURI(i))]
                   /\ uploaded' = recordUpload(uploaded, BlobName(i))
                   /\ UNCHANGED <<gCtx, egErr>>
              [] st = "FAILED" ->
                   /\ taskFails(i, Wrap("failed to upload large inline data to File API",
                                        PlainError("File API processing failed")))
                   /\ UNCHANGED <<processedParts, uploaded>>
              [] OTHER ->
                   /\ task' = [task EXCEPT ![i].pc = "select"]
                   /\ UNCHANGED <<processedParts, gCtx, egErr, uploaded>>
    /\ UNCHANGED <<env, deleteErr, cfg, client, pc, callVars, ctx, cleaned, deletes, asyncDel, retryVars, ret>>

\* a status query whose goroutine shares the loop variable i with the others:
\* it substitutes at the index the loop ended on
GetReturns_SharedIndex(i) ==
    /\ task[i].pc = "get"
    /\ \/ \E e \in FileAPIErrors(gCtx) :
            /\ taskFails(i, Wrap("failed to upload large inline data to File API", e))
            /\ UNCHANGED <<processedParts, uploaded>>
       \/ \E st \in FileStates :
            CASE st = "ACTIVE" ->
                   /\ task' = [task EXCEPT ![i] = [pc |-> "ok", clock |-> 0, err |-> NoError,
                                                   State |-> st]]
                   /\ processedParts' = [processedParts EXCEPT ![Len(parts)] = FilePart(BlobURI(i))]
                   /\ uploaded' = recordUpload(uploaded, BlobName(i))
                   /\ UNCHANGED <<gCtx, egErr>>
              [] st = "FAILED" ->
                   /\ taskFails(i, Wrap("failed to upload large inline data to File API",
                                        PlainError("File API processing failed")))
                   /\ UNCHANGED <<processedParts, uploaded>>
              [] OTHER ->
                   /\ task' = [task EXCEPT ![i].pc = "select"]
                   /\ UNCHANGED <<processedParts, gCtx, egErr, uploaded>>
    /\ UNCHANGED <<env, deleteErr, cfg, client, pc, callVars, ctx, cleaned, deletes, asyncDel, retryVars, ret>>

\* a status query that returns the URI of the active blob without its name
GetReturns_NoName(i) ==
    /\ task[i].pc = "get"
    /\ \/ \E e \in FileAPIErrors(gCtx) :
            /\ taskFails(i, Wrap("failed to upload large inline data to File API", e))
            /\ UNCHANGED <<processedParts, uploaded>>
       \/ \E st \in FileStates :
            CASE st = "ACTIVE" ->
                   /\ task' = [task EXCEPT ![i] = [pc |-> "ok", clock |-> 0, err |-> NoError,
                                                   State |-> st]]
                   /\ processedParts' = [processedParts EXCEPT ![i] = FilePart(BlobURI(i))]
                   /\ uploaded' = uploaded
                   /\ UNCHANGED <<gCtx, egErr>>
              [] st = "FAILED" ->
                   /\ taskFails(i, Wrap("failed to upload large inline data to File API",
                                        PlainError("File API processing failed")))
                   /\ UNCHANGED <<processedParts, uploaded>>
              [] OTHER ->
                   /\ task' = [task EXCEPT ![i].pc = "select"]
                   /\ UNCHANGED <<processedParts, gCtx, egErr, uploaded>>
    /\ UNCHANGED <<env, deleteErr, cfg, client, pc, callVars, ctx, cleaned, deletes, asyncDel, retryVars, ret>>

\* Files.Get returns: an error, or the state of the blob
GetReturns(i) ==
    /\ task[i].pc = "get"
    /\ \/ \E e \in FileAPIErrors(gCtx) :
            /\ taskFails(i, Wrap("failed to upload large inline data to File API", e))
            /\ UNCHANGED <<processedParts, uploaded>>
       \/ \E st \in FileStates :
            CASE st = "ACTIVE" ->
                   /\ task' = [task EXCEPT ![i] = [pc |-> "ok", clock |-> 0, err |-> NoError,
                                                   State |-> st]]
                   /\ processedParts' = [processedParts EXCEPT ![i] = FilePart(BlobURI(i))]
                   /\ uploaded' = recordUpload(uploaded, BlobName(i))
                   /\ UNCHANGED <<gCtx, egErr>>
              [] st = "FAILED" ->
                   /\ taskFails(i, Wrap("failed to upload large inline data to File API",
                                        PlainError("File API processing failed")))
                   /\ UNCHANGED <<processedParts, uploaded>>
              [] OTHER ->
                   /\ task' = [task EXCEPT ![i].pc = "select"]
                   /\ UNCHANGED <<processedParts, gCtx, egErr, uploaded>>
    /\ UNCHANGED <<env, deleteErr, cfg, client, pc, callVars, ctx, cleaned, deletes, asyncDel, retryVars, ret>>

\* a join that never reports the error of a goroutine
Wait_IgnoreError ==
    /\ pc = "offload"
    /\ \A i \in Idx : task[i].pc \in {"none", "ok", "failed"}
    /\ gCtx' = IF gCtx = "live" THEN "canceled" ELSE gCtx
    /\ IF FALSE
       THEN /\ ret' = [resp |-> NilResp, err |-> Wrap("failed during parallel file upload", egErr)]
            /\ pc' = "returning"
       ELSE /\ ret' = ret
            /\ pc' = "execute"
    /\ UNCHANGED <<env, deleteErr, cfg, client, callVars, processedParts, ctx, task, egErr, uploaded,
                   cleaned, deletes, asyncDel, retryVars>>

\* a join that returns as soon as one goroutine has returned
Wait_NoJoin ==
    /\ pc = "offload"
    /\ \E i \in Idx : task[i].pc \in {"none", "ok", "failed"}
    /\ gCtx' = IF gCtx = "live" THEN "canceled" ELSE gCtx
    /\ IF egErr # NoError
       THEN /\ ret' = [resp |-> NilResp, err |-> Wrap("failed during parallel file upload", egErr)]
            /\ pc' = "returning"
       ELSE /\ ret' = ret
            /\ pc' = "execute"
    /\ UNCHANGED <<env, deleteErr, cfg, client, callVars, processedParts, ctx, task, egErr, uploaded,
                   cleaned, deletes, asyncDel, retryVars>>

\* eg.Wait() returns once every goroutine has returned, and cancels gCtx
Wait ==
    /\ pc = "offload"
    /\ \A i \in Idx : task[i].pc \in {"none", "ok", "failed"}
    /\ gCtx' = IF gCtx = "live" THEN "canceled" ELSE gCtx
    /\ IF egErr # NoError
       THEN /\ ret' = [resp |-> NilResp, err |-> Wrap("failed during parallel file upload", egErr)]
            /\ pc' = "returning"
       ELSE /\ ret' = ret
            /\ pc' = "execute"
    /\ UNCHANGED <<env, deleteErr, cfg, client, callVars, processedParts, ctx, task, egErr, uploaded,
                   cleaned, deletes, asyncDel, retryVars>>

(* ------------------------------ cleanup -------------------------------- *)

\* what Files.Delete returns when its request was issued
DeleteOutcomes == {NoError, PlainError("delete failed")}

\* a delete goroutine whose failure replaces the error of its upload goroutine
AsyncDelete_ReturnsDeleteError(i) ==
    /\ asyncDel[i].state = "spawned"
    /\ asyncDel' = [asyncDel EXCEPT ![i].state = "done"]
    /\ IF asyncDel[i].ctx = "Background" \/ gCtx = "live"
       THEN /\ deletes' = [deletes EXCEPT ![i] = @ + 1]
            /\ \E e \in DeleteOutcomes : deleteErr' = e
       ELSE /\ deletes' = deletes
            /\ deleteErr' = CtxError(gCtx)
    /\ task' = IF deleteErr' = NoError THEN task ELSE [task EXCEPT ![i].err = deleteErr']
    /\ egErr' = IF deleteErr' = NoError \/ egErr # task[i].err THEN egErr ELSE deleteErr'
    /\ UNCHANGED <<env, cfg, client, pc, callVars, processedParts, ctx, gCtx,
                   uploaded, cleaned, retryVars, ret>>

\* a delete goroutine runs Files.Delete and discards what it returns; the
\* request is issued unless the context handed to it is already done
\* (context.Background() never is)
AsyncDelete(i) ==
    /\ asyncDel[i].state = "spawned"
    /\ asyncDel' = [asyncDel EXCEPT ![i].state = "done"]
    /\ IF asyncDel[i].ctx = "Background" \/ gCtx = "live"
       THEN /\ deletes' = [deletes EXCEPT ![i] = @ + 1]
            /\ \E e \in DeleteOutcomes : deleteErr' = e
       ELSE /\ deletes' = deletes
            /\ deleteErr' = CtxError(gCtx)
    /\ UNCHANGED <<env, cfg, client, pc, callVars, processedParts, ctx, gCtx, task, egErr,
                   uploaded, cleaned, retryVars, ret>>

\* before the call returns, Files.Delete is attempted for the next recorded
\* blob; its failure is only logged
CleanupDelete ==
    /\ pc = "returning"
    /\ cleaned < Len(uploaded)
    /\ cleaned' = cleaned + 1
    /\ deletes' = [deletes EXCEPT ![uploaded[cleaned + 1]] = @ + 1]
    /\ \E e \in DeleteOutcomes : deleteErr' = e
    /\ UNCHANGED <<env, cfg, client, pc, callVars, processedParts, ctx, gCtx, task, egErr,
                   uploaded, asyncDel, retryVars, ret>>

\* the call returns to its caller
Return ==
    /\ pc = "returning"
    /\ cleaned = Len(uploaded)
    /\ pc' = "returned"
    /\ UNCHANGED <<env, deleteErr, cfg, client, callVars, ctx, offloadVars, cleaned, retryVars, ret>>

(* ---------------------------- specification ---------------------------- *)

Next ==
    \/ GenerateContent
    \/ GenerateWithParts
    \/ CancelCtx
    \/ InvokeOp
    \/ OpReturns
    \/ BackoffElapsed
    \/ BackoffCancelled
    \/ \E i \in Idx : UploadReturns(i)
    \/ \E i \in Idx : TimePasses(i)
    \/ \E i \in Idx : PollCtxDone(i)
    \/ \E i \in Idx : PollTimeout(i)
    \/ \E i \in Idx : PollTick(i)
    \/ \E i \in Idx : GetReturns(i)
    \/ Wait
    \/ \E i \in Idx : AsyncDelete(i)
    \/ CleanupDelete
    \/ Return

Spec == Init /\ [][Next]_vars


(* ------------- specification of the offload under fairness ------------- *)

\* the offload step of one GenerateWithParts call, up to the return of the
\* join
NextOffload ==
    \/ GenerateWithParts
    \/ CancelCtx
    \/ \E i \in Idx : UploadReturns(i)
    \/ \E i \in Idx : TimePasses(i)
    \/ \E i \in Idx : PollCtxDone(i)
    \/ \E i \in Idx : PollTimeout(i)
    \/ \E i \in Idx : PollTick(i)
    \/ \E i \in Idx : GetReturns(i)
    \/ Wait
    \/ \E i \in Idx : AsyncDelete(i)

\* every goroutine keeps running, time passes, and a call to the File API
\* returns; a select whose timeout or Done channel is ready again and again
\* ends up taking that case, the choice among the ready cases being uniformly
\* random
FairOffload ==
    /\ \A i \in Idx :
         /\ WF_vars(UploadReturns(i))
         /\ WF_vars(TimePasses(i))
         /\ WF_vars(PollTick(i))
         /\ WF_vars(GetReturns(i))
         /\ SF_vars(PollTimeout(i))
         /\ SF_vars(PollCtxDone(i))
    /\ WF_vars(Wait)

\* the offload sends no generation request, so the retry setting of the
\* client plays no part in it: one client, with the default policy
InitOffload == Init /\ cfg.MaxRetries = 0

SpecOffload == InitOffload /\ [][NextOffload]_vars /\ FairOffload

(* --------------- specification of the error classifier ----------------- *)

\* every shape an error can have for errors.As, errors.Is and status.FromError
ErrorShapes ==
    {[msg |-> "e", root |-> "e", api |-> a, ctx |-> c, code |-> k, attempts |-> 0] :
        a \in BOOLEAN, c \in {"none"} \cup CtxErrs, k \in Codes \cup {"none"}}

InitClassify ==
    /\ env = NoEnv
    /\ deleteErr = NoError
    /\ cfg \in Configs
    /\ client = NewClient(cfg)
    /\ pc = "classify"
    /\ lastErr \in ErrorShapes
    /\ mode = "none"
    /\ prompt = ""
    /\ parts = <<>>
    /\ processedParts = <<>>
    /\ ctx = "live"
    /\ gCtx = "live"
    /\ task = [i \in Idx |-> NoTask]
    /\ egErr = NoError
    /\ uploaded = <<>>
    /\ cleaned = 0
    /\ deletes = [i \in Idx |-> 0]
    /\ asyncDel = [i \in Idx |-> NoDelete]
    /\ attempts = 0
    /\ genRequests = 0
    /\ sentParts = {}
    /\ genLog = <<>>
    /\ finalResp = NilResp
    /\ ret = NoRet

\* shouldRetry(lastErr) is evaluated
Classify ==
    /\ pc = "classify"
    /\ pc' = IF shouldRetry(lastErr) THEN "Retry" ELSE "NoRetry"
    /\ UNCHANGED <<env, deleteErr, cfg, client, callVars, ctx, offloadVars, cleaned, retryVars, ret>>

NextClassify == Classify

SpecClassify == InitClassify /\ [][NextClassify]_vars

(* --------------- specification of the response extractor --------------- *)

\* the responses the extractor is applied to: those of Responses, and two
\* with a second candidate that differs from the first
ExtractResponses ==
    Responses
      \cup {Response(<<[FinishReason |-> "SAFETY", Content |-> Content(<<"t1">>)],
                       [FinishReason |-> FinishReasonStop, Content |-> Content(<<"t2">>)]>>),
            Response(<<[FinishReason |-> FinishReasonStop, Content |-> NilContent],
                       [FinishReason |-> "SAFETY", Content |-> Content(<<"t2">>)]>>)}

\* Models.GenerateContent has returned (resp, nil) to op, in GenerateContent
\* (mode "text") or in GenerateWithParts (mode "parts")
InitExtract ==
    /\ env = NoEnv
    /\ deleteErr = NoError
    /\ cfg \in Configs
    /\ client = NewClient(cfg)
    /\ pc = "extract"
    /\ mode \in {"text", "parts"}
    /\ prompt = IF mode = "text" THEN "prompt" ELSE ""
    /\ parts = <<>>
    /\ processedParts = <<>>
    /\ ctx = "live"
    /\ gCtx = "live"
    /\ task = [i \in Idx |-> NoTask]
    /\ egErr = NoError
    /\ uploaded = <<>>
    /\ cleaned = 0
    /\ deletes = [i \in Idx |-> 0]
    /\ asyncDel = [i \in Idx |-> NoDelete]
    /\ attempts = 1
    /\ genRequests = 1
    /\ sentParts = {requestParts}
    /\ \E r \in ExtractResponses : genLog = <<Outcome(NoError, r)>>
    /\ lastErr = NoError
    /\ finalResp = NilResp
    /\ ret = NoRet

\* op applies extractTextFromResponse to the response and returns its error,
\* or stores the Response
Extract ==
    /\ pc = "extract"
    /\ LET r == opReturn(genLog[1])
       IN  /\ lastErr' = r.err
           /\ finalResp' = r.resp
    /\ pc' = "extracted"
    /\ UNCHANGED <<env, deleteErr, cfg, client, callVars, ctx, offloadVars, cleaned,
                   attempts, genRequests, sentParts, genLog, ret>>

NextExtract == Extract

SpecExtract == InitExtract /\ [][NextExtract]_vars

(* --------------- specification of the client construction -------------- *)

\* the Config values NewClient is called with: with and without an API key,
\* without a temperature and with one below, at, inside, at and above the
\* bounds of the range (in tenths), with and without retry settings
ConstructConfigs ==
    {[APIKey |-> k, Temperature |-> t, MaxRetries |-> n, InitialDelay |-> d, MaxDelay |-> m] :
        k \in {"", "key"},
        t \in {NoTemperature} \cup {Temperature(v) : v \in {-1, 0, 5, 10, 11, 15}},
        n \in 0..MaxCfgRetries,
        d \in {0, 50, 200},
        m \in {0, 100}}

\* the environments NewClientFromEnv is called in
Envs == {Env(g, o) : g \in {"", "gemini-key"}, o \in {"", "google-key"}}

\* before the constructor is called there is no client
NilClient == [NoClient("nil") EXCEPT !.err = NoError]

InitConstruct ==
    /\ env \in Envs
    /\ deleteErr = NoError
    /\ cfg \in ConstructConfigs
    /\ client = NilClient
    /\ pc = "construct"
    /\ mode = "none"
    /\ prompt = ""
    /\ parts = <<>>
    /\ processedParts = <<>>
    /\ ctx = "live"
    /\ gCtx = "live"
    /\ task = [i \in Idx |-> NoTask]
    /\ egErr = NoError
    /\ uploaded = <<>>
    /\ cleaned = 0
    /\ deletes = [i \in Idx |-> 0]
    /\ asyncDel = [i \in Idx |-> NoDelete]
    /\ attempts = 0
    /\ genRequests = 0
    /\ sentParts = {}
    /\ genLog = <<>>
    /\ lastErr = NoError
    /\ finalResp = NilResp
    /\ ret = NoRet

\* NewClient(ctx, cfg) is called
Construct ==
    /\ pc = "construct"
    /\ client' = NewClient(cfg)
    /\ pc' = "NewClient"
    /\ UNCHANGED <<env, deleteErr, cfg, callVars, ctx, offloadVars, cleaned, retryVars, ret>>

\* NewClientFromEnv(ctx) is called
ConstructFromEnv ==
    /\ pc = "construct"
    /\ client' = NewClientFromEnv(env)
    /\ pc' = "NewClientFromEnv"
    /\ UNCHANGED <<env, deleteErr, cfg, callVars, ctx, offloadVars, cleaned, retryVars, ret>>

NextConstruct ==
    \/ Construct
    \/ ConstructFromEnv

SpecConstruct == InitConstruct /\ [][NextConstruct]_vars

(* ------------------------------ properties ----------------------------- *)

N == client.retryConfig.MaxRetries

Done == pc \in {"returning", "returned"}

InRetryLoop == pc \in {"execute", "inflight", "backoff"}

\* the error op returned on its k-th invocation
opErr(k) == opReturn(genLog[k]).err

\* a failure with a status code the classifier treats as transient
TransientFailure(o) ==
    /\ o.err # NoError
    /\ ~o.err.api
    /\ o.err.ctx = "none"
    /\ o.err.code \in {"DeadlineExceeded", "Unavailable", "ResourceExhausted", "Internal"}

\* an error for which the retry predicate answers false
NoRetryError(e) ==
    /\ e # NoError
    /\ \/ e.api
       \/ e.ctx \in {"canceled", "deadline"}
       \/ e.code \notin {"DeadlineExceeded", "Unavailable", "ResourceExhausted", "Internal"}

\* C1: op is never invoked more than maxRetries + 1 times; and when every
\* attempt failed with a transient error while the caller's context stayed
\* live, the call ends after exactly maxRetries + 1 invocations with the
\* "retries exhausted" error that carries the last error of op.
C1_ExhaustedAfterMaxRetriesPlusOne ==
    /\ attempts <= N + 1
    /\ (/\ Done
        /\ ctx = "live"
        /\ genLog # <<>>
        /\ \A k \in DOMAIN genLog : TransientFailure(genLog[k]))
         => /\ attempts = N + 1
            /\ Len(genLog) = N + 1
            /\ ret.resp.isNil
            /\ ret.err.msg = "retries exhausted"
            /\ ret.err.attempts = N + 1
            /\ ret.err.code = genLog[N + 1].err.code
            /\ ret.err.root = genLog[N + 1].err.root

C1_Witness ==
    /\ pc = "returned"
    /\ mode = "text"
    /\ ctx = "live"
    /\ cfg.MaxRetries = 1
    /\ attempts = 2
    /\ \A k \in DOMAIN genLog : TransientFailure(genLog[k])
    /\ ret.err.msg = "retries exhausted"
    /\ ret.err.code = "Internal"

\* C2: an attempt that fails with an error the retry predicate rejects is the
\* last one: the call returns that same error at once, without a backoff wait
\* or another attempt; when it is the first attempt, op ran exactly once
\* whatever the retry budget.
C2_NoRetryErrorReturnsAtOnce ==
    /\ \A k \in DOMAIN genLog :
         NoRetryError(opErr(k))
           => /\ k = Len(genLog)
              /\ ~InRetryLoop
              /\ Done
              /\ ret.err = opErr(k)
              /\ ret.resp.isNil
    /\ (genLog # <<>> /\ NoRetryError(opErr(1)))
         => (attempts = 1 /\ genRequests = 1)

C2_Witness ==
    /\ pc = "returned"
    /\ N = 3
    /\ genLog = <<Outcome(PlainError("transport"), NilResponse)>>
    /\ attempts = 1
    /\ ret.err = PlainError("transport")

\* C3: when attempts 1..k-1 failed with transient errors and attempt k
\* succeeded, the call returns the result of attempt k (its text and its raw
\* response) and op ran exactly k times; no attempt follows a success.
C3_SuccessAfterTransientFailures ==
    /\ \A k \in DOMAIN genLog :
         opErr(k) = NoError => (k = Len(genLog) /\ ~InRetryLoop /\ Done)
    /\ (/\ genLog # <<>>
        /\ opErr(Len(genLog)) = NoError
        /\ \A k \in 1..(Len(genLog) - 1) : TransientFailure(genLog[k]))
         => /\ ret.err = NoError
            /\ ret.resp = [isNil |-> FALSE,
                           Text |-> extractTextFromResponse(genLog[Len(genLog)].resp).text,
                           RawResponse |-> genLog[Len(genLog)].resp]
            /\ attempts = Len(genLog)
            /\ genRequests = Len(genLog)
            /\ Len(genLog) <= N + 1

C3_Witness ==
    /\ pc = "returned"
    /\ mode = "text"
    /\ N = 3
    /\ Len(genLog) = 3
    /\ TransientFailure(genLog[1])
    /\ TransientFailure(genLog[2])
    /\ attempts = 3
    /\ ret.err = NoError
    /\ ret.resp.Text = "t1"

\* a received response the extractor rejects: nil, no candidate, or a first
\* candidate whose finish reason is neither unspecified nor stop
Rejected(r) ==
    \/ r.isNil
    \/ Len(r.Candidates) = 0
    \/ r.Candidates[1].FinishReason \notin {FinishReasonUnspecified, FinishReasonStop}

\* C4: an attempt that ends in an APIResponseError is never followed by
\* another attempt; a GenerateContent call whose first received response is
\* rejected has sent exactly one request and returns the APIResponseError of
\* that response.
C4_RejectedResponseNotRetried ==
    /\ \A k \in DOMAIN genLog :
         opErr(k).api => (k = Len(genLog) /\ ~InRetryLoop)
    /\ (/\ mode = "text"
        /\ genLog # <<>>
        /\ genLog[1].err = NoError
        /\ Rejected(genLog[1].resp))
         => /\ Done
            /\ genRequests = 1
            /\ attempts = 1
            /\ ret.err.api
            /\ ret.err = extractTextFromResponse(genLog[1].resp).err
            /\ ret.resp.isNil

C4_Witness ==
    /\ pc = "returned"
    /\ mode = "text"
    /\ genLog = <<Outcome(NoError, Response(<<[FinishReason |-> "SAFETY", Content |-> Content(<<"t1">>)]>>))>>
    /\ genRequests = 1
    /\ ret.err = APIResponseError("blocked")

\* C5: an error that is or wraps context.Canceled or
\* context.DeadlineExceeded is classified NoRetry, whatever status code it
\* also carries and whether or not it is an APIResponseError.
C5_ContextErrorIsNoRetry ==
    (pc \in {"Retry", "NoRetry"} /\ lastErr.ctx \in {"canceled", "deadline"})
      => pc = "NoRetry"

C5_Witness ==
    /\ pc = "NoRetry"
    /\ lastErr.ctx = "deadline"
    /\ lastErr.code = "Unavailable"
    /\ ~lastErr.api

\* C6: for an error that is neither an APIResponseError nor a context error,
\* the classifier answers Retry exactly when the error carries one of the
\* status codes DeadlineExceeded, Unavailable, ResourceExhausted, Internal;
\* any other code and an error without a status are NoRetry.
C6_RetryIffTransientCode ==
    (pc \in {"Retry", "NoRetry"} /\ ~lastErr.api /\ lastErr.ctx = "none")
      => (pc = "Retry" <=>
            lastErr.code \in {"DeadlineExceeded", "Unavailable", "ResourceExhausted", "Internal"})

C6_Witness ==
    /\ pc = "NoRetry"
    /\ ~lastErr.api
    /\ lastErr.ctx = "none"
    /\ lastErr.code = "none"


\* C7: once an upload goroutine has failed, no request is ever sent to the
\* generation endpoint and the call ends with an error; and every request
\* GenerateWithParts sends has each oversized part of the caller replaced by
\* the reference to its blob, so none mixes substituted and unsubstituted
\* oversized parts.
C7_UploadFailureSendsNoRequest ==
    /\ (\E i \in Idx : task[i].pc = "failed")
         => /\ genRequests = 0
            /\ sentParts = {}
            /\ ~InRetryLoop
            /\ Done => (ret.err # NoError /\ ret.resp.isNil)
    /\ mode = "parts"
         => \A body \in sentParts :
              /\ Len(body) = Len(parts)
              /\ \A i \in DOMAIN parts :
                   IF parts[i].InlineLen > fileAPITransferThreshold
                   THEN body[i] = FilePart(BlobURI(i))
                   ELSE body[i] = parts[i]

C7_Witness ==
    /\ pc = "returned"
    /\ mode = "parts"
    /\ task[1].pc = "ok"
    /\ task[2].pc = "failed"
    /\ genRequests = 0
    /\ ret.err.msg = "failed during parallel file upload"

\* C8: a request to the generation endpoint is sent, in flight or awaited
\* only when every upload goroutine of the call has returned successfully:
\* none is still uploading or polling.
C8_GenerationAfterUploads ==
    (genRequests > 0 \/ InRetryLoop)
      => /\ \A i \in Idx : task[i].pc \in {"none", "ok"}
         /\ \A i \in DOMAIN parts :
              (mode = "parts" /\ parts[i].InlineLen > fileAPITransferThreshold)
                => task[i].pc = "ok"

C8_Witness ==
    /\ pc = "inflight"
    /\ genRequests = 1
    /\ task[1].pc = "ok"
    /\ task[2].pc = "ok"

TimedOut(i) == task[i].pc = "failed" /\ task[i].err.root = "file processing timed out"

\* C10: an upload goroutine returns the timeout error only from the poll loop
\* once the polling timeout has elapsed; it has then started a delete of the
\* blob that runs with context.Background() and issues its request whatever
\* the caller's context; the call sends no generation request and returns an
\* error, the timeout error when that was the first failure.
C10_PollTimeout ==
    /\ [](\A i \in Idx :
            TimedOut(i)
              => /\ asyncDel[i].state \in {"spawned", "done"}
                 /\ asyncDel[i].ctx = "Background"
                 /\ asyncDel[i].state = "done" => deletes[i] = 1
                 /\ genRequests = 0
                 /\ ~InRetryLoop
                 /\ Done => (ret.err # NoError /\ ret.resp.isNil)
                 /\ (Done /\ egErr = task[i].err)
                      => ret.err.root = "file processing timed out")
    /\ [][\A i \in Idx :
            (TimedOut(i)' /\ ~TimedOut(i))
              => (task[i].pc = "select" /\ task[i].clock >= filePollingTimeout)]_vars

C10_Witness ==
    /\ pc = "returned"
    /\ TimedOut(1)
    /\ ctx = "canceled"
    /\ asyncDel[1].state = "done"
    /\ deletes[1] = 1
    /\ genRequests = 0
    /\ ret.err.root = "file processing timed out"

\* C11: an upload goroutine that returns a cancellation error after its
\* upload succeeded (from the wait for the next tick or from a status query in
\* flight), the caller's context being cancelled, has started a delete of its
\* blob that runs with context.Background().
C11_CancelledTaskDeletesBlob ==
    [][\A i \in Idx :
         (/\ ctx # "live"
          /\ task[i].pc \in {"select", "get"}
          /\ task'[i].pc = "failed"
          /\ task'[i].err.ctx \in {"canceled", "deadline"})
           => /\ asyncDel'[i].state = "spawned"
              /\ asyncDel'[i].ctx = "Background"]_vars

\* C12: once GenerateWithParts has accepted the caller's parts, no step
\* changes them: at every moment of the call, and after it returned with a
\* result or an error, the caller's sequence is the one that was passed; the
\* client's copy has the same length and differs from it only at the oversized
\* parts whose upload completed, which hold the reference to their blob.
C12_CallerPartsNeverMutated ==
    /\ [][pc # "idle" => parts' = parts]_vars
    /\ [](mode = "parts"
            => /\ parts \in PartLists
               /\ Len(processedParts) = Len(parts)
               /\ \A i \in DOMAIN parts :
                    IF task[i].pc = "ok"
                    THEN /\ parts[i].InlineLen > fileAPITransferThreshold
                         /\ parts[i].FileURI = 0
                         /\ processedParts[i] = FilePart(BlobURI(i))
                    ELSE processedParts[i] = parts[i])

C12_Witness ==
    /\ pc = "returned"
    /\ ret.err = NoError
    /\ Len(parts) = 2
    /\ parts[1] = InlinePart(fileAPITransferThreshold + 1)
    /\ parts[2] = TextPart
    /\ processedParts[1] = FilePart(BlobURI(1))
    /\ processedParts[2] = TextPart

\* the response op received
received == genLog[1].resp

\* the first candidate of the response has a finish reason other than
\* unspecified and stop
Blocked(r) ==
    /\ ~r.isNil
    /\ Len(r.Candidates) > 0
    /\ r.Candidates[1].FinishReason \notin {FinishReasonUnspecified, FinishReasonStop}

\* the first candidate has an acceptable finish reason and no content: nil, or
\* without parts
EmptyContent(r) ==
    /\ ~r.isNil
    /\ Len(r.Candidates) > 0
    /\ r.Candidates[1].FinishReason \in {FinishReasonUnspecified, FinishReasonStop}
    /\ \/ r.Candidates[1].Content.isNil
       \/ Len(r.Candidates[1].Content.Parts) = 0

\* C13: when the first candidate of the response has a finish reason other
\* than unspecified and stop, extraction yields no text and the blocked
\* APIResponseError, whatever content the candidate carries and whatever
\* the candidates after it; op returns that error and stores no Response.
C13_BlockedFinishReasonRejected ==
    (pc = "extracted" /\ Blocked(received))
      => /\ lastErr = APIResponseError("blocked")
         /\ lastErr.api
         /\ finalResp.isNil
         /\ extractTextFromResponse(received).text = ""

C13_Witness ==
    /\ pc = "extracted"
    /\ Len(received.Candidates) = 2
    /\ received.Candidates[1].FinishReason = "SAFETY"
    /\ received.Candidates[1].Content = Content(<<"t1">>)
    /\ lastErr = APIResponseError("blocked")

\* C14: when the first candidate has an acceptable finish reason and empty
\* content, op of GenerateContent returns an APIResponseError and stores no
\* Response, while op of GenerateWithParts succeeds and stores a Response
\* with empty text and the raw response.
C14_EmptyContentTextFailsPartsSucceed ==
    (pc = "extracted" /\ EmptyContent(received))
      => IF mode = "text"
         THEN lastErr.api /\ finalResp.isNil
         ELSE /\ lastErr = NoError
              /\ finalResp = [isNil |-> FALSE, Text |-> "", RawResponse |-> received]

\* C15: for a nil response and for a response without candidates, extraction
\* yields empty text and the "empty response" APIResponseError; op of
\* GenerateContent and op of GenerateWithParts both return that error and
\* store no Response.
C15_EmptyResponseRejected ==
    (pc = "extracted" /\ (received.isNil \/ Len(received.Candidates) = 0))
      => /\ lastErr = APIResponseError("empty response")
         /\ lastErr.api
         /\ finalResp.isNil
         /\ extractTextFromResponse(received).text = ""

C15_Witness ==
    /\ pc = "extracted"
    /\ mode = "parts"
    /\ received = Response(<<>>)
    /\ lastErr = APIResponseError("empty response")
    /\ finalResp.isNil

\* C16: in GenerateWithParts, an attempt that received a rejected response
\* (no candidates, or a blocked finish reason) is the last one and the call
\* returns the APIResponseError of that response and no result; when it is the
\* first attempt, exactly one request was sent. An attempt that failed in the
\* transport is the last one, its error returned as it is, when the error is
\* not transient; when it is transient and the retry budget is not used up,
\* the call goes on to back off and try again, unless the caller's context
\* ended the wait.
C16_PartsRejectionTerminalTransportClassified ==
    mode = "parts"
      => /\ \A k \in DOMAIN genLog :
              (genLog[k].err = NoError /\ Rejected(genLog[k].resp))
                => /\ k = Len(genLog)
                   /\ Done
                   /\ ret.err.api
                   /\ ret.err = extractTextFromResponse(genLog[k].resp).err
                   /\ ret.resp.isNil
         /\ (genLog # <<>> /\ genLog[1].err = NoError /\ Rejected(genLog[1].resp))
              => (genRequests = 1 /\ attempts = 1)
         /\ \A k \in DOMAIN genLog :
              /\ NoRetryError(genLog[k].err)
                   => (k = Len(genLog) /\ Done /\ ret.err = genLog[k].err /\ ret.resp.isNil)
              /\ (TransientFailure(genLog[k]) /\ k = Len(genLog) /\ k <= N)
                   => \/ pc \in {"backoff", "execute", "inflight"}
                      \/ Done /\ ctx # "live" /\ ret.err = CtxError(ctx)

C16_Witness ==
    /\ pc = "returned"
    /\ mode = "parts"
    /\ Len(genLog) = 2
    /\ genLog[1] = Outcome(StatusError("Unavailable"), NilResponse)
    /\ genLog[2] = Outcome(NoError, Response(<<>>))
    /\ genRequests = 2
    /\ ret.err = APIResponseError("empty response")

\* C17: GenerateContent called with an empty prompt has returned as soon as
\* it was called, with the input-validation error and no result: no request
\* was sent to the generation endpoint and op was never invoked, whatever the
\* retry policy of the client.
C17_EmptyPromptFailsFast ==
    (mode = "text" /\ prompt = "")
      => /\ pc = "returned"
         /\ ret.err = PlainError("empty prompt")
         /\ ret.resp.isNil
         /\ attempts = 0
         /\ genRequests = 0
         /\ sentParts = {}
         /\ genLog = <<>>

C17_Witness ==
    /\ pc = "returned"
    /\ mode = "text"
    /\ prompt = ""
    /\ cfg.MaxRetries = 1
    /\ genRequests = 0
    /\ ret.err = PlainError("empty prompt")

C19_MissingCredentialRejected ==
    /\ (pc = "NewClient" /\ cfg.APIKey = "")
         => /\ ~client.ok
            /\ client.err = PlainError("api key required")
    /\ pc = "NewClientFromEnv"
         => IF env.GEMINI_API_KEY = "" /\ env.GOOGLE_API_KEY = ""
            THEN /\ ~client.ok
                 /\ client.err = PlainError("GEMINI_API_KEY or GOOGLE_API_KEY not set")
            ELSE /\ client.ok
                 /\ client.err = NoError
                 /\ client.apiKey = IF env.GEMINI_API_KEY # ""
                                    THEN env.GEMINI_API_KEY
                                    ELSE env.GOOGLE_API_KEY

C19_Witness ==
    /\ pc = "NewClientFromEnv"
    /\ env.GEMINI_API_KEY = ""
    /\ env.GOOGLE_API_KEY = ""
    /\ ~client.ok
    /\ client.err = PlainError("GEMINI_API_KEY or GOOGLE_API_KEY not set")

\* C20: a step in which a Files.Delete call returns, successfully or not,
\* changes nothing but the bookkeeping of the deletes: what the call returns,
\* its position, the stored Response, and every upload goroutine's state and
\* error stay as they were; and no error the call, the errgroup or an upload
\* goroutine holds is ever the error of a delete.
C20_DeleteOutcomeNeverReturned ==
    /\ [][(deletes' # deletes \/ deleteErr' # deleteErr)
            => UNCHANGED <<ret, pc, finalResp, lastErr, task, egErr, processedParts,
                           genLog, attempts, genRequests, ctx, gCtx, uploaded>>]_vars
    /\ [](/\ ret.err.root # "delete failed"
          /\ lastErr.root # "delete failed"
          /\ egErr.root # "delete failed"
          /\ \A i \in Idx : task[i].err.root # "delete failed")

C20_Witness ==
    /\ pc = "returned"
    /\ deleteErr = PlainError("delete failed")
    /\ Len(parts) = 2
    /\ task[1].pc = "ok"
    /\ TimedOut(2)
    /\ deletes[1] = 1
    /\ deletes[2] = 1
    /\ ret.err.root = "file processing timed out"

\* C21: while the retry executor waits in a backoff delay and the caller's
\* context is cancelled, no attempt is started and no request is sent; the
\* only way out of the wait is the return of the context's error, with no
\* result, which is not the "retries exhausted" error; that error is returned
\* only after maxRetries + 1 attempts.
C21_BackoffCancelled ==
    /\ [][(pc = "backoff" /\ ctx # "live")
            => /\ attempts' = attempts
               /\ genRequests' = genRequests
               /\ \/ pc' = "backoff" /\ ret' = ret
                  \/ /\ pc' = "returning"
                     /\ ret' = [resp |-> NilResp, err |-> CtxError(ctx)]
                     /\ ret'.err.msg # "retries exhausted"]_vars
    /\ [](ret.err.msg = "retries exhausted" => attempts = N + 1)

C21_Witness ==
    /\ pc = "returned"
    /\ N = 3
    /\ attempts = 1
    /\ Len(genLog) = 1
    /\ TransientFailure(genLog[1])
    /\ ctx = "canceled"
    /\ ret.err = CtxError("canceled")

\* C22: GenerateWithParts starts an upload goroutine for exactly the parts
\* whose inline data is longer than 512 KiB, none for a text part or for
\* inline data of 512 KiB or less; each goroutine starts its upload once, when
\* the call begins; and every request sent has the caller's part at each index
\* that was not offloaded and, at each offloaded index, a part that holds only
\* the reference to the blob uploaded for that index.
C22_OffloadExactlyOversized ==
    /\ [](mode = "parts"
            => /\ \A i \in Idx :
                    task[i].pc # "none"
                      <=> (i \in DOMAIN parts /\ parts[i].InlineLen > 512 * 1024)
               /\ \A body \in sentParts :
                    /\ DOMAIN body = DOMAIN parts
                    /\ \A i \in DOMAIN parts :
                         body[i] = IF parts[i].InlineLen > 512 * 1024
                                   THEN [Text |-> "", InlineLen |-> -1, FileURI |-> BlobURI(i)]
                                   ELSE parts[i])
    /\ [][\A i \in Idx :
            (task'[i].pc = "upload" /\ task[i].pc # "upload")
              => (pc = "idle" /\ task[i].pc = "none")]_vars

C22_Witness ==
    /\ pc = "inflight"
    /\ parts = <<InlinePart(512 * 1024), InlinePart(512 * 1024 + 1)>>
    /\ task[1].pc = "none"
    /\ task[2].pc = "ok"
    /\ sentParts = {<<InlinePart(512 * 1024), FilePart(BlobURI(2))>>}

\* the upload goroutine of part i returned because the blob was observed FAILED
ProcessingFailed(i) ==
    task[i].pc = "failed" /\ task[i].err.root = "File API processing failed"

\* C23: an upload goroutine returns success only out of a status query, and
\* only with the blob observed ACTIVE; a part is replaced by the reference to
\* its blob only when its goroutine has returned success; every blob reference
\* in a request sent belongs to such a goroutine; when a request is sent, no
\* delete has been issued or started for a blob it references; and a call in
\* which a blob was observed FAILED sends no request and never substitutes
\* that part.
C23_BlobLifecycle ==
    /\ [](/\ \A i \in Idx :
               /\ task[i].pc = "ok" => task[i].State = "ACTIVE"
               /\ (i \in DOMAIN processedParts /\ processedParts[i].FileURI # 0)
                    => (task[i].pc = "ok" /\ processedParts[i].FileURI = BlobURI(i))
               /\ ProcessingFailed(i)
                    => (genRequests = 0 /\ sentParts = {} /\ processedParts[i] = parts[i])
          /\ \A body \in sentParts : \A i \in DOMAIN body :
               body[i].FileURI # 0
                 => (task[i].pc = "ok" /\ task[i].State = "ACTIVE"))
    /\ [][/\ \A i \in Idx :
               (task'[i].pc = "ok" /\ task[i].pc # "ok") => task[i].pc = "get"
          /\ genRequests' > genRequests
               => \A i \in DOMAIN processedParts :
                    processedParts[i].FileURI # 0
                      => (deletes[i] = 0 /\ asyncDel[i].state = "none")]_vars

C23_Witness ==
    /\ pc = "returned"
    /\ Len(parts) = 1
    /\ task[1].pc = "ok"
    /\ task[1].State = "ACTIVE"
    /\ genRequests = 2
    /\ deletes[1] = 1
    /\ ret.err = NoError

\* the upload goroutine of part i is running: uploading or polling
Running(i) == task[i].pc \in {"upload", "select", "get"}

\* C26: every upload goroutine that is running eventually returns, with
\* success or with an error, whatever the states the status queries report.
C26_UploadTaskTerminates ==
    \A i \in Idx : Running(i) ~> (task[i].pc \in {"ok", "failed"})

C26_Witness ==
    /\ pc = "returning"
    /\ ctx = "live"
    /\ Len(parts) = 1
    /\ TimedOut(1)
    /\ asyncDel[1].state = "spawned"

\* every upload goroutine of the call has returned
AllReturned == \A i \in Idx : task[i].pc \in {"none", "ok", "failed"}

\* C24: an upload goroutine that returns an error cancels, in that same
\* step, the context the goroutines share; the error the group keeps is that of
\* the first goroutine that failed and never changes afterwards; the join has
\* returned only when every goroutine has returned, and it then returns the
\* kept error, wrapped; and once a goroutine has failed, every sibling still
\* uploading or polling returns and the join returns the error.
C24_JoinFailsFast ==
    /\ [](/\ (\E i \in Idx : task[i].pc = "failed") <=> egErr # NoError
          /\ egErr # NoError => gCtx # "live"
          /\ (mode = "parts" /\ pc # "offload")
               => /\ AllReturned
                  /\ egErr # NoError
                       => /\ pc = "returning"
                          /\ ret.resp.isNil
                          /\ ret.err = [egErr EXCEPT !.msg = "failed during parallel file upload"])
    /\ [][/\ egErr # NoError => egErr' = egErr
          /\ (egErr = NoError /\ egErr' # NoError)
               => /\ \A j \in Idx : task[j].pc # "failed"
                  /\ \E i \in Idx : task'[i].pc = "failed" /\ task'[i].err = egErr'
                  /\ gCtx' # "live"]_vars
    /\ (egErr # NoError) ~> (AllReturned /\ pc = "returning")

C24_Witness ==
    /\ pc = "returning"
    /\ ctx = "live"
    /\ Len(parts) = 2
    /\ task[1].pc = "failed"
    /\ task[1].err.root = "File API processing failed"
    /\ task[2].pc = "failed"
    /\ task[2].err.ctx = "canceled"
    /\ asyncDel[2].state = "spawned"
    /\ ret.err.root = "File API processing failed"

\* the blobs whose upload goroutine returned success
SucceededBlobs == {BlobName(i) : i \in {j \in Idx : task[j].pc = "ok"}}

HasSegments(r) ==
    /\ ~r.isNil
    /\ Len(r.Candidates) > 0
    /\ r.Candidates[1].FinishReason \in {FinishReasonUnspecified, FinishReasonStop}
    /\ ~r.Candidates[1].Content.isNil
    /\ Len(r.Candidates[1].Content.Parts) > 0

\* C27: for an accepted candidate with at least one segment, op stores the
\* text of the first segment whose text is not empty; when no segment has
\* text, op of GenerateWithParts stores empty text and returns no error, and
\* op of GenerateContent returns an APIResponseError and stores no Response.
C27_FirstTextOrRejectedInTextCall ==
    (pc = "extracted" /\ HasSegments(received))
      => LET segs == received.Candidates[1].Content.Parts
             withText == {k \in DOMAIN segs : segs[k] # ""}
         IN  IF withText # {}
             THEN /\ lastErr = NoError
                  /\ \E k \in withText :
                       /\ \A j \in withText : k <= j
                       /\ finalResp = [isNil |-> FALSE, Text |-> segs[k],
                                       RawResponse |-> received]
             ELSE IF mode = "parts"
             THEN /\ lastErr = NoError
                  /\ finalResp = [isNil |-> FALSE, Text |-> "", RawResponse |-> received]
             ELSE lastErr.api /\ finalResp.isNil

C29_EveryPollErrorDeletesBlob ==
    [][\A i \in Idx :
         (task[i].pc \in {"select", "get"} /\ task'[i].pc = "failed")
           => asyncDel'[i].state = "spawned"]_vars

\* C30 as stated: the retry policy of every client NewClient returns has
\* initialInterval <= maxInterval.
C30_InitialNeverAboveMax ==
    (pc = "NewClient" /\ client.ok)
      => client.retryConfig.InitialInterval <= client.retryConfig.MaxInterval

\* C30: the retry policy of every client NewClient returns takes
\* maxRetries, initialInterval and maxInterval each from the Config when
\* positive and from the defaults 3, 30 s and 120 s otherwise; it has
\* initialInterval <= maxInterval when neither delay is given, and when both
\* are given with InitialDelay <= MaxDelay.
C30_PolicyFromConfigOrDefaults ==
    (pc = "NewClient" /\ client.ok)
      => /\ client.retryConfig.MaxRetries = IF cfg.MaxRetries > 0 THEN cfg.MaxRetries ELSE 3
         /\ client.retryConfig.InitialInterval
              = IF cfg.InitialDelay > 0 THEN cfg.InitialDelay ELSE 30
         /\ client.retryConfig.MaxInterval = IF cfg.MaxDelay > 0 THEN cfg.MaxDelay ELSE 120
         /\ (\/ cfg.InitialDelay <= 0 /\ cfg.MaxDelay <= 0
             \/ cfg.InitialDelay > 0 /\ cfg.MaxDelay > 0 /\ cfg.InitialDelay <= cfg.MaxDelay)
              => client.retryConfig.InitialInterval <= client.retryConfig.MaxInterval

C30_Witness ==
    /\ pc = "NewClient"
    /\ client.ok
    /\ cfg.InitialDelay = 50
    /\ cfg.MaxDelay = 100
    /\ cfg.MaxRetries = 0
    /\ client.retryConfig = [MaxRetries |-> 3, InitialInterval |-> 50, MaxInterval |-> 100]

====
